---- MODULE Spec2Model ----
(***************************************************************************)
(* The n-puzzle solver: neighbors, the Manhattan + linear-conflict         *)
(* heuristic, the parity solvability test and the A* / uniform-cost loop.  *)
(* Boards are the flat row-major tuples of the source; the source indexes  *)
(* them from 0, a TLA+ tuple from 1, so b[idx + 1] is the source's b[idx]. *)
(***************************************************************************)
EXTENDS Integers, Sequences, FiniteSets, TLC

VARIABLES n, start, use_heuristic, pc, cur, pq, g_best, parent,
          expanded, max_frontier, result, ucs, wb, steps

vars == <<n, start, use_heuristic, pc, cur, pq, g_best, parent,
          expanded, max_frontier, result, ucs, wb, steps>>

\* Python's None: as a move label, as a board and as a result
None == "None"
NoBoard == << >>
NoResult == [moves |-> -1, path |-> << >>, boards |-> << >>,
             expanded |-> 0, max_frontier |-> 0]

(* ------------------------------ bounds --------------------------------- *)

\* radius of the ball of 3x3 start boards around the goal
MaxScramble == 4

\* length of the longest walk of blank moves followed from its origin
MaxSteps == 13

\* length of the longest hand-made solution compared with astar's
MaxSolution == 28

(* ------------------------------ helpers -------------------------------- *)

Abs(x) == IF x < 0 THEN 0 - x ELSE x

max(x, y) == IF y > x THEN y ELSE x

RECURSIVE SumTo(_, _)
SumTo(F, k) == IF k < 0 THEN 0 ELSE F[k] + SumTo(F, k - 1)

\* the tuple seq restricted to the elements satisfying keep, in order
RECURSIVE Filter(_, _)
Filter(seq, keep) ==
    IF seq = << >> THEN << >>
    ELSE (IF keep[Head(seq)] THEN <<Head(seq)>> ELSE << >>)
         \o Filter(Tail(seq), keep)

\* number of pairs i < j of key with key[i] > key[j]
CountInv(key) ==
    Cardinality({p \in (1..Len(key)) \X (1..Len(key)) :
                    p[1] < p[2] /\ key[p[1]] > key[p[2]]})

Index(b, v) == (CHOOSE i \in 1..Len(b) : b[i] = v) - 1

(* ------------------------------ state.py ------------------------------- *)

goal_board(N) == [i \in 1..(N * N) |-> IF i = N * N THEN 0 ELSE i]

(* ---------------------------- heuristics.py ---------------------------- *)

\* goal positions of the blank-first convention: value v at cell v
build_goal_positions_blank_first(N) ==
    [val \in 0..(N * N - 1) |-> <<val \div N, val % N>>]

build_goal_positions(N) ==
    [val \in 0..(N * N - 1) |->
        IF val = 0 THEN <<N - 1, N - 1>>
        ELSE <<(val - 1) \div N, (val - 1) % N>>]

\* manhattan with the column term forgotten
manhattan_rows_only(N, b, goal_pos) ==
    SumTo([idx \in 0..(N * N - 1) |->
              IF b[idx + 1] = 0 THEN 0
              ELSE Abs((idx \div N) - goal_pos[b[idx + 1]][1])],
          N * N - 1)

manhattan(N, b, goal_pos) ==
    SumTo([idx \in 0..(N * N - 1) |->
              IF b[idx + 1] = 0 THEN 0
              ELSE Abs((idx \div N) - goal_pos[b[idx + 1]][1])
                   + Abs((idx % N) - goal_pos[b[idx + 1]][2])],
          N * N - 1)

row_tiles(N, b, goal_pos, r) ==
    Filter([c \in 1..N |-> b[r * N + (c - 1) + 1]],
           [val \in 0..(N * N - 1) |-> val # 0 /\ goal_pos[val][1] = r])

col_tiles(N, b, goal_pos, c) ==
    Filter([r \in 1..N |-> b[(r - 1) * N + c + 1]],
           [val \in 0..(N * N - 1) |-> val # 0 /\ goal_pos[val][2] = c])

row_conflicts(N, b, goal_pos, r) ==
    LET t == row_tiles(N, b, goal_pos, r)
    IN  2 * CountInv([i \in 1..Len(t) |-> goal_pos[t[i]][2]])

col_conflicts(N, b, goal_pos, c) ==
    LET t == col_tiles(N, b, goal_pos, c)
    IN  2 * CountInv([i \in 1..Len(t) |-> goal_pos[t[i]][1]])

linear_conflict(N, b, goal_pos) ==
    SumTo([r \in 0..(N - 1) |-> row_conflicts(N, b, goal_pos, r)], N - 1)
    + SumTo([c \in 0..(N - 1) |-> col_conflicts(N, b, goal_pos, c)], N - 1)

heuristic(N, b, goal_pos) ==
    manhattan(N, b, goal_pos) + linear_conflict(N, b, goal_pos)

(* --------------------------- solvability.py ---------------------------- *)

inversion_count(seq) ==
    CountInv(Filter(seq, [x \in 0..Len(seq) |-> x # 0]))

\* is_solvable with the rule of odd n applied to every n
is_solvable_odd_rule(N, b) == inversion_count(b) % 2 = 0

is_solvable(N, b) ==
    LET inv == inversion_count(b)
        blank_row_from_bottom == N - (Index(b, 0) \div N)
    IN  IF N % 2 = 1 THEN inv % 2 = 0
        ELSE IF blank_row_from_bottom % 2 = 0 THEN inv % 2 = 1
        ELSE inv % 2 = 0

(* ------------------------------ search.py ------------------------------ *)

\* swap_and_yield that moves the tile but leaves the blank's old cell
swap_and_yield_half(b, z, nidx, mv) ==
    <<[i \in 1..Len(b) |-> IF i = z + 1 THEN b[nidx + 1] ELSE b[i]], mv>>

swap_and_yield(b, z, nidx, mv) ==
    <<[i \in 1..Len(b) |-> IF i = z + 1 THEN b[nidx + 1]
                           ELSE IF i = nidx + 1 THEN b[z + 1]
                           ELSE b[i]], mv>>

\* neighbors with the move to the right forgotten
neighbors_no_right(N, b) ==
    LET z  == Index(b, 0)
        zr == z \div N
        zc == z % N
    IN  (IF zr > 0 THEN <<swap_and_yield(b, z, z - N, "U")>> ELSE << >>)
        \o (IF zr < N - 1 THEN <<swap_and_yield(b, z, z + N, "D")>> ELSE << >>)
        \o (IF zc > 0 THEN <<swap_and_yield(b, z, z - 1, "L")>> ELSE << >>)

\* neighbors whose move to the left tests the flat index, not the column
neighbors_wrap_left(N, b) ==
    LET z  == Index(b, 0)
        zr == z \div N
        zc == z % N
    IN  (IF zr > 0 THEN <<swap_and_yield(b, z, z - N, "U")>> ELSE << >>)
        \o (IF zr < N - 1 THEN <<swap_and_yield(b, z, z + N, "D")>> ELSE << >>)
        \o (IF z > 0 THEN <<swap_and_yield(b, z, z - 1, "L")>> ELSE << >>)
        \o (IF zc < N - 1 THEN <<swap_and_yield(b, z, z + 1, "R")>> ELSE << >>)

neighbors(N, b) ==
    LET z  == Index(b, 0)
        zr == z \div N
        zc == z % N
    IN  (IF zr > 0 THEN <<swap_and_yield(b, z, z - N, "U")>> ELSE << >>)
        \o (IF zr < N - 1 THEN <<swap_and_yield(b, z, z + N, "D")>> ELSE << >>)
        \o (IF zc > 0 THEN <<swap_and_yield(b, z, z - 1, "L")>> ELSE << >>)
        \o (IF zc < N - 1 THEN <<swap_and_yield(b, z, z + 1, "R")>> ELSE << >>)

\* dataclass(order=True) compares (f, h, g, board) field by field; two
\* boards compare as tuples, element by element
BoardLess(a, b) ==
    \E k \in 1..Len(a) :
        /\ a[k] < b[k]
        /\ \A j \in 1..(k - 1) : a[j] = b[j]

PQItem(f, h, g, board) == [f |-> f, h |-> h, g |-> g, board |-> board]

\* the ordering of a record declared with the fields f, g, h, board
ItemLess_g_before_h(x, y) ==
    \/ x.f < y.f
    \/ x.f = y.f /\ x.g < y.g
    \/ x.f = y.f /\ x.g = y.g /\ x.h < y.h
    \/ x.f = y.f /\ x.g = y.g /\ x.h = y.h /\ BoardLess(x.board, y.board)

ItemLess(x, y) ==
    \/ x.f < y.f
    \/ x.f = y.f /\ x.h < y.h
    \/ x.f = y.f /\ x.h = y.h /\ x.g < y.g
    \/ x.f = y.f /\ x.h = y.h /\ x.g = y.g /\ BoardLess(x.board, y.board)

\* heapq.heappop: the least entry of the heap
heappop(q) == CHOOSE x \in q : \A y \in q \ {x} : ItemLess(x, y)

_trivial_solution_if_goal(s, goal) ==
    IF s # goal THEN NoResult
    ELSE [moves |-> 0, path |-> << >>, boards |-> <<s>>,
          expanded |-> 0, max_frontier |-> 0]

\* _reconstruct_path with the final reversal of the moves forgotten
RECURSIVE _reconstruct_path_unreversed(_, _)
_reconstruct_path_unreversed(node, par) ==
    IF node = NoBoard THEN [moves |-> << >>, boards |-> << >>]
    ELSE LET p    == par[node][1]
             mv   == par[node][2]
             rest == _reconstruct_path_unreversed(p, par)
         IN  [moves  |-> IF mv # None THEN <<mv>> \o rest.moves
                         ELSE rest.moves,
              boards |-> Append(rest.boards, node)]

\* walks the parent links from node back to the start; the two lists are
\* returned already reversed into start-to-goal order
RECURSIVE _reconstruct_path(_, _)
_reconstruct_path(node, par) ==
    IF node = NoBoard THEN [moves |-> << >>, boards |-> << >>]
    ELSE LET p    == par[node][1]
             mv   == par[node][2]
             rest == _reconstruct_path(p, par)
         IN  [moves  |-> IF mv # None THEN Append(rest.moves, mv)
                         ELSE rest.moves,
              boards |-> Append(rest.boards, node)]

\* g_best.get(b, 10**18)
g_best_get(gb, b) == IF b \in DOMAIN gb THEN gb[b] ELSE 10^18

Put(fn, k, v) == [x \in DOMAIN fn \cup {k} |-> IF x = k THEN v ELSE fn[x]]

\* lines 113-119: the body of the for loop, for one pair (nb, mv)
relax_one(pair, b, g, use, N, st) ==
    LET nb == pair[1]
        mv == pair[2]
        ng == g + 1
        nh == IF use THEN heuristic(N, nb, build_goal_positions(N)) ELSE 0
    IN  IF nb \notin DOMAIN st.g_best \/ ng < st.g_best[nb]
        THEN [g_best |-> Put(st.g_best, nb, ng),
              parent |-> Put(st.parent, nb, <<b, mv>>),
              pq     |-> st.pq \cup {PQItem(ng + nh, nh, ng, nb)}]
        ELSE st

\* lines 112-119: the for loop over neighbors(n, b), pair after pair
RECURSIVE relax(_, _, _, _, _, _)
relax(nbs, b, g, use, N, st) ==
    IF nbs = << >> THEN st
    ELSE CHOOSE out \in {relax(Tail(nbs), b, g, use, N, s1) :
                            s1 \in {relax_one(Head(nbs), b, g, use, N, st)}} :
             TRUE

(* ------------------------------- inputs -------------------------------- *)

RECURSIVE Perms(_)
Perms(S) ==
    IF S = {} THEN {<< >>}
    ELSE UNION {{<<x>> \o p : p \in Perms(S \ {x})} : x \in S}

\* the boards one blank move away from a board of B
Step(N, B) ==
    UNION {{neighbors(N, b)[i][1] : i \in 1..Len(neighbors(N, b))} : b \in B}

\* the boards at most k blank moves away from board c
RECURSIVE Ball(_, _, _)
Ball(N, c, k) ==
    IF k = 0 THEN {c}
    ELSE LET inner == Ball(N, c, k - 1) IN inner \cup Step(N, inner)

\* every board of the 2x2 puzzle, solvable or not
Boards2 == Perms(0..3)

\* 3x3 boards 12 and 14 moves from the goal: on the first the heuristic
\* run pops a stale entry, on the second it expands a board twice
StaleStart == <<1, 2, 3, 8, 0, 7, 5, 4, 6>>
ReexpandStart == <<0, 1, 2, 5, 4, 3, 7, 6, 8>>

DeepStarts == {StaleStart, ReexpandStart}

\* a 3x3 board 28 moves from the goal
LongStart == <<8, 5, 7, 6, 0, 4, 3, 2, 1>>

\* the boards of test_npuzzle.py's TestAStar
TestStarts == {goal_board(3), <<1, 2, 3, 4, 5, 6, 7, 0, 8>>,
               <<1, 2, 3, 4, 0, 6, 7, 5, 8>>}

ShallowStarts(N) ==
    IF N = 2 THEN Boards2
    ELSE Ball(N, goal_board(N), MaxScramble) \cup TestStarts

(* ------------------------- astar, step by step ------------------------- *)

NoItem == PQItem(0, 0, 0, << >>)

Init ==
    /\ n \in {2, 3}
    /\ \/ start \in ShallowStarts(n) /\ use_heuristic \in BOOLEAN
       \/ n = 3 /\ start \in DeepStarts /\ use_heuristic = TRUE
    /\ pc = "call"
    /\ cur = NoItem
    /\ pq = {}
    /\ g_best = << >>
    /\ parent = << >>
    /\ expanded = 0
    /\ max_frontier = 0
    /\ result = NoResult
    /\ ucs = NoResult
    /\ wb = << >>
    /\ steps = 0

\* lines 71-74: the start is the goal, return the trivial solution
ReturnTrivial ==
    /\ pc = "call"
    /\ _trivial_solution_if_goal(start, goal_board(n)) # NoResult
    /\ result' = _trivial_solution_if_goal(start, goal_board(n))
    /\ pc' = "done"
    /\ UNCHANGED <<n, start, use_heuristic, cur, pq, g_best, parent,
                   expanded, max_frontier, ucs, wb, steps>>

\* lines 76-88: the tables and the first frontier entry
Setup ==
    /\ pc = "call"
    /\ _trivial_solution_if_goal(start, goal_board(n)) = NoResult
    /\ LET h0 == IF use_heuristic
                 THEN heuristic(n, start, build_goal_positions(n))
                 ELSE 0
       IN  pq' = {PQItem(h0, h0, 0, start)}
    /\ parent' = Put(<< >>, start, <<NoBoard, None>>)
    /\ g_best' = Put(<< >>, start, 0)
    /\ expanded' = 0
    /\ max_frontier' = 0
    /\ pc' = "loop"
    /\ UNCHANGED <<n, start, use_heuristic, cur, result, ucs, wb, steps>>

\* lines 91-95: the popped entry is stale
SkipStale ==
    /\ pc = "loop"
    /\ pq # {}
    /\ \E c \in {heappop(pq)} :
           /\ c.g # g_best_get(g_best, c.board)
           /\ cur' = c
           /\ pq' = pq \ {c}
    /\ UNCHANGED <<n, start, use_heuristic, pc, g_best, parent, expanded,
                   max_frontier, result, ucs, wb, steps>>

\* lines 91-110: the popped entry is the goal
ReturnGoal ==
    /\ pc = "loop"
    /\ pq # {}
    /\ \E c \in {heappop(pq)} :
           /\ c.g = g_best_get(g_best, c.board)
           /\ c.board = goal_board(n)
           /\ cur' = c
           /\ pq' = pq \ {c}
           /\ expanded' = expanded + 1
           /\ max_frontier' = max(max_frontier, Cardinality(pq) - 1)
           /\ \E rp \in {_reconstruct_path(c.board, parent)} :
                  result' = [moves |-> c.g, path |-> rp.moves,
                             boards |-> rp.boards,
                             expanded |-> expanded + 1,
                             max_frontier |->
                                 max(max_frontier, Cardinality(pq) - 1)]
    /\ pc' = "done"
    /\ UNCHANGED <<n, start, use_heuristic, g_best, parent, ucs, wb, steps>>

\* lines 91-119: the popped entry is expanded
Expand ==
    /\ pc = "loop"
    /\ pq # {}
    /\ \E c \in {heappop(pq)} :
           /\ c.g = g_best_get(g_best, c.board)
           /\ c.board # goal_board(n)
           /\ cur' = c
           /\ expanded' = expanded + 1
           /\ max_frontier' = max(max_frontier, Cardinality(pq) - 1)
           /\ \E st \in {relax(neighbors(n, c.board), c.board, c.g,
                                use_heuristic, n,
                                [g_best |-> g_best, parent |-> parent,
                                 pq |-> pq \ {c}])} :
                  /\ g_best' = st.g_best
                  /\ parent' = st.parent
                  /\ pq' = st.pq
    /\ UNCHANGED <<n, start, use_heuristic, pc, result, ucs, wb, steps>>

\* line 121: the frontier is empty
RaiseNoSolution ==
    /\ pc = "loop"
    /\ pq = {}
    /\ pc' = "error"
    /\ UNCHANGED <<n, start, use_heuristic, cur, pq, g_best, parent,
                   expanded, max_frontier, result, ucs, wb, steps>>

\* cli.py lines 25-28: after the uniform-cost run, the heuristic run
RunHeuristic ==
    /\ pc = "done"
    /\ ~use_heuristic
    /\ ucs' = result
    /\ use_heuristic' = TRUE
    /\ pc' = "call"
    /\ cur' = NoItem
    /\ pq' = {}
    /\ g_best' = << >>
    /\ parent' = << >>
    /\ expanded' = 0
    /\ max_frontier' = 0
    /\ result' = NoResult
    /\ UNCHANGED <<n, start, wb, steps>>

Next ==
    \/ ReturnTrivial
    \/ Setup
    \/ SkipStale
    \/ ReturnGoal
    \/ Expand
    \/ RaiseNoSolution
    \/ RunHeuristic

Spec == Init /\ [][Next]_vars

\* astar is one synchronous call: each step that can be taken is taken
FairSpec ==
    /\ Spec
    /\ WF_vars(ReturnTrivial)
    /\ WF_vars(Setup)
    /\ WF_vars(SkipStale)
    /\ WF_vars(ReturnGoal)
    /\ WF_vars(Expand)
    /\ WF_vars(RaiseNoSolution)
    /\ WF_vars(RunHeuristic)

(* ------------------- walks of blank moves on a board ------------------- *)

\* the goal with its last two tiles exchanged: the rejected boards of
\* test_npuzzle.py's TestSolvability for n = 3 and n = 4
swapped_goal(N) ==
    [i \in 1..(N * N) |-> IF i = N * N - 2 THEN N * N - 1
                          ELSE IF i = N * N - 1 THEN N * N - 2
                          ELSE goal_board(N)[i]]

InitWalk ==
    /\ n \in {2, 3, 4}
    /\ start \in {goal_board(n), swapped_goal(n)}
    /\ wb = start
    /\ steps = 0
    /\ use_heuristic = TRUE
    /\ pc = "walk"
    /\ cur = NoItem
    /\ pq = {}
    /\ g_best = << >>
    /\ parent = << >>
    /\ expanded = 0
    /\ max_frontier = 0
    /\ result = NoResult
    /\ ucs = NoResult

\* one blank move: any of the pairs neighbors(n, wb) yields
Slide ==
    /\ pc = "walk"
    /\ steps < MaxSteps
    /\ \E i \in 1..Len(neighbors(n, wb)) : wb' = neighbors(n, wb)[i][1]
    /\ steps' = steps + 1
    /\ UNCHANGED <<n, start, use_heuristic, pc, cur, pq, g_best, parent,
                   expanded, max_frontier, result, ucs>>

NextWalk == Slide

SpecWalk == InitWalk /\ [][NextWalk]_vars

(* ------------- a hand-made solution, then astar's answer -------------- *)

InitPath ==
    /\ n = 3
    /\ start = LongStart
    /\ wb = start
    /\ steps = 0
    /\ use_heuristic = TRUE
    /\ pc = "walk"
    /\ cur = NoItem
    /\ pq = {}
    /\ g_best = << >>
    /\ parent = << >>
    /\ expanded = 0
    /\ max_frontier = 0
    /\ result = NoResult
    /\ ucs = NoResult

SlidePath ==
    /\ pc = "walk"
    /\ steps < MaxSolution
    /\ wb # goal_board(n)
    /\ \E i \in 1..Len(neighbors(n, wb)) : wb' = neighbors(n, wb)[i][1]
    /\ steps' = steps + 1
    /\ UNCHANGED <<n, start, use_heuristic, pc, cur, pq, g_best, parent,
                   expanded, max_frontier, result, ucs>>

\* the walk has solved the board in steps moves: call astar on the start
Solve ==
    /\ pc = "walk"
    /\ wb = goal_board(n)
    /\ pc' = "call"
    /\ UNCHANGED <<n, start, use_heuristic, cur, pq, g_best, parent,
                   expanded, max_frontier, result, ucs, wb, steps>>

NextPath ==
    \/ SlidePath
    \/ Solve
    \/ Setup
    \/ SkipStale
    \/ ReturnGoal
    \/ Expand

SpecPath == InitPath /\ [][NextPath]_vars

(* ------------------------------- claims -------------------------------- *)

\* C1: the move count astar returns is the least number of blank moves from
\* the start to the goal: no sequence of moves produced by neighbors that
\* leads from the start to the goal is shorter than it
C1_MovesAreMinimal ==
    pc = "done" => result.moves <= steps

\* a reachable case of C1: astar has returned on the board 28 moves away
C1_Case ==
    pc = "done" /\ start = LongStart /\ steps = MaxSolution

\* C2: the heuristic is admissible: a board that a walk of blank moves
\* joins to the goal has a heuristic value no larger than the length of
\* that walk, hence no larger than the least number of moves to the goal
C2_Admissible ==
    start = goal_board(n)
        => heuristic(n, wb, build_goal_positions(n)) <= steps

\* C3: the heuristic is consistent: it never exceeds one plus the heuristic
\* of a board that neighbors yields
C3_Consistent ==
    \A i \in 1..Len(neighbors(n, wb)) :
        heuristic(n, wb, build_goal_positions(n))
            <= 1 + heuristic(n, neighbors(n, wb)[i][1],
                             build_goal_positions(n))

\* C4: is_solvable accepts exactly the boards that blank moves join to the
\* goal: it accepts every board walked to from the goal, rejects every board
\* walked to from the goal with two tiles exchanged, and every move can be
\* taken back, so a walk from the goal read backwards leads to the goal
C4_SolvableIffReachable ==
    /\ is_solvable(n, wb) <=> (start = goal_board(n))
    /\ \A i \in 1..Len(neighbors(n, wb)) :
           \E j \in 1..Len(neighbors(n, neighbors(n, wb)[i][1])) :
               neighbors(n, neighbors(n, wb)[i][1])[j][1] = wb

C4_Witness ==
    /\ n = 4
    /\ start = goal_board(n)
    /\ steps >= 6
    /\ Index(wb, 0) \div n = 1
    /\ is_solvable(n, wb)

\* C5: a result of astar is a solution of the reported length: as many
\* labels as moves, one board more, from the start to the goal, each board
\* and label a pair that neighbors yields on the board before
C5_ValidPath ==
    pc = "done" =>
        /\ Len(result.path) = result.moves
        /\ Len(result.boards) = result.moves + 1
        /\ result.boards[1] = start
        /\ result.boards[Len(result.boards)] = goal_board(n)
        /\ \A i \in 1..result.moves :
               \E j \in 1..Len(neighbors(n, result.boards[i])) :
                   neighbors(n, result.boards[i])[j]
                       = <<result.boards[i + 1], result.path[i]>>
        /\ start = goal_board(n) =>
               /\ result.moves = 0
               /\ result.path = << >>
               /\ result.boards = <<start>>

C5_Witness ==
    pc = "done" /\ n = 3 /\ use_heuristic /\ result.moves >= 4

\* C6: on the same start the heuristic run expands no more boards than the
\* uniform-cost run
C6_HeuristicExpandsNoMore ==
    (pc = "done" /\ ucs # NoResult) => result.expanded <= ucs.expanded

C6_Witness ==
    /\ pc = "done"
    /\ ucs # NoResult
    /\ n = 3
    /\ result.expanded < ucs.expanded

\* C7: on a start that is_solvable accepts, astar never raises its
\* no-solution error and eventually returns a result
C7_SolvableRunReturns ==
    /\ [](is_solvable(n, start) => pc # "error")
    /\ is_solvable(n, start) ~> (pc = "done")

C7_Witness ==
    pc = "done" /\ is_solvable(n, start) /\ n = 3 /\ expanded >= 4

\* C8: the heuristic is 0 on the goal board and positive on every other
\* board, and neither of its two terms is negative
C8_ZeroExactlyAtGoal ==
    /\ (heuristic(n, wb, build_goal_positions(n)) = 0)
           <=> (wb = goal_board(n))
    /\ heuristic(n, wb, build_goal_positions(n)) >= 0
    /\ manhattan(n, wb, build_goal_positions(n)) >= 0
    /\ linear_conflict(n, wb, build_goal_positions(n)) >= 0

C8_Witness ==
    /\ n = 3
    /\ steps = 2
    /\ wb = goal_board(n)

\* the cell the blank reaches from flat index z by the move labelled mv
Target(N, z, mv) ==
    IF mv = "U" THEN z - N
    ELSE IF mv = "D" THEN z + N
    ELSE IF mv = "L" THEN z - 1
    ELSE z + 1

\* the number of directions in which the blank at flat index z can move
Degree(N, z) ==
    (IF z \div N > 0 THEN 1 ELSE 0) + (IF z \div N < N - 1 THEN 1 ELSE 0)
    + (IF z % N > 0 THEN 1 ELSE 0) + (IF z % N < N - 1 THEN 1 ELSE 0)

\* C9: neighbors yields one pair for each direction in which the blank can
\* move, under distinct labels among U, D, L and R, and each board yielded
\* is the input with the blank and the cell next to it in that direction
\* exchanged and every other cell as it was
C9_NeighborsFrame ==
    LET nbs == neighbors(n, wb)
        z   == Index(wb, 0)
    IN  /\ Len(nbs) = Degree(n, z)
        /\ Len(nbs) \in 2..4
        /\ \A i \in 1..Len(nbs) : nbs[i][2] \in {"U", "D", "L", "R"}
        /\ \A i, j \in 1..Len(nbs) : i # j => nbs[i][2] # nbs[j][2]
        /\ \A i \in 1..Len(nbs) :
               LET t == Target(n, z, nbs[i][2])
               IN  /\ t \in 0..(n * n - 1)
                   /\ Abs((t \div n) - (z \div n)) + Abs((t % n) - (z % n)) = 1
                   /\ Len(nbs[i][1]) = n * n
                   /\ nbs[i][1][t + 1] = 0
                   /\ nbs[i][1][z + 1] = wb[t + 1]
                   /\ \A k \in 1..(n * n) :
                          (k # z + 1 /\ k # t + 1) => nbs[i][1][k] = wb[k]
                   /\ {nbs[i][1][k] : k \in 1..(n * n)} = 0..(n * n - 1)

C9_Witness ==
    /\ n = 3
    /\ Index(wb, 0) = 4
    /\ Len(neighbors(n, wb)) = 4
    /\ steps >= 2

\* the board b has been popped as a live entry and counted as an expansion:
\* its best cost is recorded and no entry of that cost is left for it
Finalized(b) ==
    /\ b \in DOMAIN g_best
    /\ \A x \in pq : ~(x.board = b /\ x.g = g_best[b])

\* C10: in a heuristic run the best cost of a board that has been expanded
\* is never lowered afterwards and the board is never expanded again
C10_NoReexpansion ==
    [][(use_heuristic /\ pc = "loop" /\ pc' # "call") =>
          \A b \in DOMAIN g_best :
              Finalized(b) =>
                  /\ g_best'[b] = g_best[b]
                  /\ ~(expanded' = expanded + 1 /\ cur'.board = b)]_vars

\* a reachable case of C10: a heuristic run has expanded many boards
C10_Case ==
    use_heuristic /\ pc = "loop" /\ start = ReexpandStart /\ expanded >= 80

\* the key (f, h, g) of entry x comes strictly before that of entry y
KeyBefore(x, y) ==
    \/ x.f < y.f
    \/ x.f = y.f /\ x.h < y.h
    \/ x.f = y.f /\ x.h = y.h /\ x.g < y.g

\* C11: every pop takes from the frontier an entry whose key (f, h, g) is
\* least: no entry of the frontier has a smaller f, nor the same f and a
\* smaller h, nor the same f and h and a smaller g
C11_PopsLeastKey ==
    [][(pc = "loop" /\ pq # {} /\ pc' # "error") =>
          /\ cur' \in pq
          /\ \A y \in pq : ~KeyBefore(y, cur')]_vars

\* a pop with a tie on f: an entry that was in the frontier when cur was
\* popped has the same f as cur and a larger h
C11_Witness ==
    /\ use_heuristic
    /\ pc = "loop"
    /\ expanded >= 1
    /\ \E y \in pq :
           /\ y.f = cur.f
           /\ y.h > cur.h
           /\ y.g # cur.g + 1

\* C12: on a start that is_solvable rejects, astar never returns a result,
\* never records a best cost for the goal board, and after finitely many
\* pops finds the frontier empty and raises its no-solution error
C12_UnsolvableRunRaises ==
    /\ [](~is_solvable(n, start) =>
              (pc # "done" /\ goal_board(n) \notin DOMAIN g_best))
    /\ ~is_solvable(n, start) ~> (pc = "error")

\* an unsolvable run has raised after expanding every board it could reach
C12_Witness ==
    /\ pc = "error"
    /\ ~is_solvable(n, start)
    /\ pq = {}
    /\ expanded = 12
    /\ Cardinality(DOMAIN g_best) = 12

\* the number of parent links from board s back to the start, following at
\* most k of them; -1 when a link is not a pair that neighbors yields on
\* the parent, or when the start is not reached within k links
RECURSIVE ChainLen(_, _)
ChainLen(s, k) ==
    IF s \notin DOMAIN parent THEN -1
    ELSE IF parent[s][1] = NoBoard
         THEN (IF s = start /\ parent[s][2] = None THEN 0 ELSE -1)
    ELSE IF k = 0 THEN -1
    ELSE IF ~\E j \in 1..Len(neighbors(n, parent[s][1])) :
                neighbors(n, parent[s][1])[j] = <<s, parent[s][2]>>
         THEN -1
    ELSE LET up == ChainLen(parent[s][1], k - 1)
         IN  IF up = -1 THEN -1 ELSE up + 1

\* C13: the best-cost table and the parent table hold the same boards, the
\* parent links of each board lead back to the start in exactly as many
\* links as its best cost, each link a pair that neighbors yields, and the
\* move count of a result is the length of its path
C13_TablesAgree ==
    /\ DOMAIN g_best = DOMAIN parent
    /\ \A s \in DOMAIN g_best :
           ChainLen(s, Cardinality(DOMAIN parent)) = g_best[s]
    /\ pc = "done" => result.moves = Len(result.path)

====
